---- MODULE Spec2Model ----
(***************************************************************************)
(* A model of the "arguments" command line framework: arguments.h (the     *)
(* token matcher arguments_read, the value materializer arguments_set, the *)
(* release pass arguments_release and the automatic-mode main) and         *)
(* arguments-help.h (the line wrap arguments_get_line and the render loop  *)
(* of arguments_print_help_string).                                        *)
(*                                                                         *)
(* The schema (arguments.def) is an input: Init draws it from a bounded    *)
(* set of descriptor lists.  Strings are sequences of one-character        *)
(* strings; a C index i into argv is argv[i + 1] here.                     *)
(***************************************************************************)
EXTENDS Integers, Sequences, FiniteSets, TLC

\* ------------------------------------------------------------------ bounds

\* The largest argc (the program name included).
MaxArgc == 3

\* The largest value_count of a descriptor.
MaxArity == 1

\* The longest help string, in bytes.
MaxText == 4

\* The largest value of the COLUMNS environment variable.
MaxColumns == 7

\* The passes of the render loop that are followed.
MaxLines == 5

\* ------------------------------------------------------- program constants

ARGUMENTS_PRINT_HELP == 1

ARGUMENTS_PARAMETER_INVALID == 110

ARGUMENTS_PARAMETER_MISSING == 120

AC_OK == "AC_OK"

AC_ERROR == "AC_ERROR"

AC_HELP == "AC_HELP"

\* ARGUMENT_NO_SHORT_OPTION: the NULL short name.
ARGUMENT_NO_SHORT_OPTION == <<"NULL">>

\* ----------------------------------------------------------------- strings

\* The value of a char; 0 is the terminating NUL.
Ord(ch) ==
    CASE ch = "-" -> 45
      [] ch = "_" -> 95
      [] ch = "a" -> 97
      [] ch = "b" -> 98
      [] ch = "e" -> 101
      [] ch = "h" -> 104
      [] ch = "l" -> 108
      [] ch = "p" -> 112
      [] ch = "v" -> 118
      [] ch = "x" -> 120
      [] OTHER -> 63

\* s[i] of a NUL-terminated string, i counted from 1.
CharAt(s, i) == IF i <= Len(s) THEN Ord(s[i]) ELSE 0

\* The while loop of arguments_cmp: the positions at which it stops.
RECURSIVE arguments_cmp_loop(_, _, _, _)
arguments_cmp_loop(longarg, name, i, j) ==
    IF CharAt(longarg, i) # 0 /\ CharAt(name, j) # 0
    THEN IF CharAt(longarg, i) #
              (IF CharAt(name, j) = Ord("_") THEN Ord("-") ELSE CharAt(name, j))
         THEN <<i, j>>
         ELSE arguments_cmp_loop(longarg, name, i + 1, j + 1)
    ELSE <<i, j>>

\* A comparison that stops at the end of longarg: it accepts a prefix of the name.
arguments_cmp_prefix(longarg, name) ==
    IF CharAt(longarg, 1) # Ord("-") THEN -1
    ELSE IF CharAt(longarg, 2) # Ord("-") THEN -1
    ELSE LET p == arguments_cmp_loop(longarg, name, 3, 1)
         IN  CharAt(longarg, p[1])

\* arguments_cmp: the return parses as (*longarg - (*name == '_')) ? '-' : *name.
arguments_cmp(longarg, name) ==
    IF CharAt(longarg, 1) # Ord("-") THEN -1
    ELSE IF CharAt(longarg, 2) # Ord("-") THEN -1
    ELSE LET p == arguments_cmp_loop(longarg, name, 3, 1)
             l == CharAt(longarg, p[1])
             n == CharAt(name, p[2])
         IN  IF (l - (IF n = Ord("_") THEN 1 ELSE 0)) # 0 THEN Ord("-") ELSE n

\* "--" followed by the name with every underscore replaced by a dash.
LongForm(name) ==
    <<"-", "-">> \o [i \in 1..Len(name) |-> IF name[i] = "_" THEN "-" ELSE name[i]]

HelpLong == <<"-", "-", "h", "e", "l", "p">>

HelpShort == <<"-", "h">>

\* ------------------------------------------------------------------ schema

Names == {<<"a">>, <<"a", "_", "b">>, <<"h", "e", "l", "p">>}

Shorts == {ARGUMENT_NO_SHORT_OPTION, <<"-", "x">>, <<"-", "-", "a">>}

\* One invocation of _A.  set_default and read are statement blocks; what the
\* model keeps of each is the is_valid it leaves (1 unless the block clears it).
Descriptor(name, short, value_count, is_required, set_default, read) ==
    [name |-> name, short |-> short, value_count |-> value_count,
     is_required |-> is_required, set_default |-> set_default, read |-> read]

\* Schemas that vary the names: every block leaves is_valid set.
NamingDescriptors ==
    {Descriptor(n, s, k, r, 1, 1) :
        n \in Names, s \in Shorts, k \in 0..MaxArity, r \in {0}}

\* Schemas that vary the behaviour: the names are fixed by position.
BehaviourDescriptors(name, short) ==
    {Descriptor(name, short, k, r, sd, rd) :
        k \in 0..MaxArity, r \in {0, 1}, sd \in {0, 1}, rd \in {0, 1}}

\* arguments.def requires distinct names (they are struct members); distinct
\* short names are the schema author's duty.
WellFormed(s) ==
    \A i, j \in 1..Len(s) :
        i # j => /\ s[i].name # s[j].name
                 /\ (s[i].short = ARGUMENT_NO_SHORT_OPTION \/ s[i].short # s[j].short)

NamingSchemas ==
    {s \in {<<d>> : d \in NamingDescriptors}
           \cup {<<d, e>> : d \in NamingDescriptors, e \in NamingDescriptors} :
        WellFormed(s)}

BehaviourSchemas ==
    {<<d>> : d \in BehaviourDescriptors(<<"a">>, <<"-", "x">>)}
    \cup {<<d, e>> : d \in BehaviourDescriptors(<<"a">>, <<"-", "x">>),
                     e \in BehaviourDescriptors(<<"a", "_", "b">>, ARGUMENT_NO_SHORT_OPTION)}

ProgramName == <<"p">>

NamingTokens ==
    {<<"-", "-", "a">>, <<"-", "-", "a", "-", "b">>, <<"-", "x">>, HelpLong, HelpShort, <<"v">>}

BehaviourTokens == {<<"-", "-", "a">>, <<"-", "-", "a", "-", "b">>, <<"v">>, HelpLong}

\* Every argv of at most MaxArgc elements: the program name, then the tokens.
RECURSIVE Vectors(_, _)
Vectors(tokens, n) ==
    IF n = 0 THEN {<<>>}
    ELSE LET shorter == Vectors(tokens, n - 1)
         IN  shorter \cup {Append(v, t) : v \in {w \in shorter : Len(w) = n - 1}, t \in tokens}

ArgVectors(tokens) == {<<ProgramName>> \o v : v \in Vectors(tokens, MaxArgc - 1)}

\* The values setup and run return.
SetupResults == {0, 1}

RunResults == {0, 2}

\* ------------------------------------------------------------------- state

VARIABLES
    schema,         \* arguments.def: the descriptors in declaration order
    argv,           \* the argument vector
    automatic,      \* ARGUMENTS_AUTOMATIC
    pc,             \* where the process is
    arguments,      \* the arguments struct: one record per descriptor
    nextarg,        \* the int nextarg points to
    read_result,    \* what the last arguments_read returned
    set_result,     \* what arguments_set returned
    atexit_list,    \* the functions registered with atexit, in order
    exit_code,      \* what main returned
    blocks,         \* per descriptor: how often its read, set_default and release block ran
    calls,          \* how often setup, run, teardown, the required check and arguments_set ran
    examined,       \* the indexes of the tokens the loop of arguments_read examined
    help,           \* the help string arguments_print_help_string renders
    locale,         \* the LC_CTYPE locale of the process: "C" or "UTF-8"
    header,         \* whether arguments_print_help_string is given a header
    columns,        \* the COLUMNS environment variable: <<>> if unset, else <<atoi of it>>
    c,              \* the offset of c in the help string
    printed         \* the lines printed: offset, length, next offset, newline

wvars == <<help, locale, header, columns, c, printed>>

vars == <<schema, argv, automatic, pc, arguments, nextarg, read_result, set_result,
          atexit_list, exit_code, blocks, calls, examined, wvars>>

argc == Len(argv)

\* argv[i] of the C code.
Arg(i) == argv[i + 1]

Descriptors == 1..Len(schema)

NoResult == "none"

\* memset(&arguments, 0, sizeof(arguments)); value_strings 0 is NULL, otherwise it
\* is the index i of argv + i.
ZeroedArguments ==
    [d \in Descriptors |->
        [present |-> 0, initialized |-> 0, value_strings |-> 0, value_strings_length |-> 0]]

NoBlocks == [d \in Descriptors |-> [read |-> 0, set_default |-> 0, release |-> 0]]

NoCalls == [setup |-> 0, run |-> 0, teardown |-> 0, required_check |-> 0, arguments_set |-> 0]

Init ==
    /\ \/ /\ schema \in NamingSchemas
          /\ argv \in ArgVectors(NamingTokens)
       \/ /\ schema \in BehaviourSchemas
          /\ argv \in ArgVectors(BehaviourTokens)
    /\ automatic \in BOOLEAN
    /\ pc = "start"
    /\ arguments = ZeroedArguments
    /\ nextarg = 1
    /\ read_result = NoResult
    /\ set_result = NoResult
    /\ atexit_list = <<>>
    /\ exit_code = NoResult
    /\ blocks = NoBlocks
    /\ calls = NoCalls
    /\ examined = <<>>
    /\ help = <<>>
    /\ locale = "C"
    /\ header = FALSE
    /\ columns = <<>>
    /\ c = 0
    /\ printed = <<>>

\* ------------------------------------------------------- arguments_initialize

\* main, or the caller in manual mode, zeroes the struct and calls arguments_read
\* with nextarg = 1.
Initialize ==
    /\ pc = "start"
    /\ arguments' = ZeroedArguments
    /\ nextarg' = 1
    /\ pc' = "read"
    /\ UNCHANGED wvars
    /\ UNCHANGED <<schema, argv, automatic, read_result, set_result, atexit_list,
                   exit_code, blocks, calls, examined>>

\* ------------------------------------------------------------- arguments_read

\* The else-if chain: the descriptors whose condition the token satisfies.
Matches(token, d) ==
    \/ arguments_cmp(token, schema[d].name) = 0
    \/ /\ schema[d].short # ARGUMENT_NO_SHORT_OPTION
       /\ token = schema[d].short

\* The first branch of the chain that is taken, 0 if none is.
FirstMatch(token) ==
    IF \E d \in Descriptors : Matches(token, d)
    THEN CHOOSE d \in Descriptors :
            Matches(token, d) /\ \A e \in Descriptors : Matches(token, e) => d <= e
    ELSE 0

\* A help test that knows "--help" alone.
IsHelpLongOnly(token) == ARGUMENTS_PRINT_HELP # 0 /\ token = HelpLong

\* The strcmp of the token with "--help" and "-h", compiled in if
\* ARGUMENTS_PRINT_HELP is non-zero.
IsHelp(token) == ARGUMENTS_PRINT_HELP # 0 /\ (token = HelpLong \/ token = HelpShort)

\* A bound check that lets the values run one past the end of argv.
EnoughValuesInclusive(i, k) == i + k <= argc

\* *nextarg + arguments.name.value_strings_length < argc
EnoughValues(i, k) == i + k < argc

\* One pass of the while loop of arguments_read, or its end.
ReadStep ==
    /\ pc = "read"
    /\ IF nextarg < argc
       THEN LET token == Arg(nextarg)
                d == FirstMatch(token)
            IN  /\ examined' = Append(examined, nextarg)
                /\ IF IsHelp(token)
                   THEN /\ read_result' = AC_HELP
                        /\ pc' = "read_done"
                        /\ UNCHANGED <<arguments, nextarg>>
                   ELSE IF d # 0
                   THEN LET k == schema[d].value_count
                        IN  IF EnoughValues(nextarg, k)
                            THEN /\ arguments' = [arguments EXCEPT
                                        ![d].present = 1,
                                        ![d].value_strings_length = k,
                                        ![d].value_strings = nextarg + 1]
                                 /\ nextarg' = nextarg + 1 + k
                                 /\ UNCHANGED <<read_result, pc>>
                            ELSE /\ arguments' = [arguments EXCEPT
                                        ![d].present = 1,
                                        ![d].value_strings_length = k]
                                 /\ read_result' = AC_ERROR
                                 /\ pc' = "read_done"
                                 /\ UNCHANGED nextarg
                   ELSE /\ read_result' = AC_OK
                        /\ pc' = "read_done"
                        /\ UNCHANGED <<arguments, nextarg>>
       ELSE /\ read_result' = AC_OK
            /\ pc' = "read_done"
            /\ UNCHANGED <<arguments, nextarg, examined>>
    /\ UNCHANGED wvars
    /\ UNCHANGED <<schema, argv, automatic, set_result, atexit_list, exit_code, blocks, calls>>

\* The raw values of a descriptor: the value_strings_length tokens at value_strings.
RawValues(d) ==
    [i \in 1..arguments[d].value_strings_length |-> Arg(arguments[d].value_strings + i - 1)]

\* -------------------------------------------------------------- arguments_set

\* A materializer that runs the read block whether or not the argument is present.
BlockRunAlwaysRead(present) == "read"

\* The block arguments_set runs for a descriptor: read if it is present,
\* set_default otherwise.
BlockRun(present) == IF present # 0 THEN "read" ELSE "set_default"

\* The expansion of _A for the descriptors d, d + 1, ... in arguments_set: st is
\* the struct, the is_valid flag and the count of the blocks run so far.
RECURSIVE arguments_set_from(_, _)
arguments_set_from(d, st) ==
    IF d > Len(schema) THEN st
    ELSE IF st.is_valid = 0 THEN arguments_set_from(d + 1, st)
    ELSE LET block == BlockRun(st.arguments[d].present)
             is_valid == IF block = "read" THEN schema[d].read ELSE schema[d].set_default
             ran == IF block = "read"
                    THEN [st.blocks EXCEPT ![d].read = @ + 1]
                    ELSE [st.blocks EXCEPT ![d].set_default = @ + 1]
         IN  arguments_set_from(d + 1,
                [arguments |-> IF is_valid # 0
                               THEN [st.arguments EXCEPT ![d].initialized = 1]
                               ELSE st.arguments,
                 is_valid |-> is_valid,
                 blocks |-> ran])

\* arguments_set up to its atexit call: the struct, is_valid and the blocks run.
arguments_set(args, blks) ==
    arguments_set_from(1, [arguments |-> args, is_valid |-> 1, blocks |-> blks])

\* ---------------------------------------------------------- arguments_release

\* arguments_release: the release block of every initialized descriptor runs; the
\* struct is left as it is.
arguments_release(args, blks) ==
    [arguments |-> args,
     blocks |-> [d \in Descriptors |->
                    IF args[d].initialized # 0
                    THEN [blks[d] EXCEPT !.release = @ + 1]
                    ELSE blks[d]]]

\* ------------------------------------------------------------------------ main

\* The first descriptor that is required and not present, 0 if there is none.
FirstMissing(args) ==
    LET missing == {d \in Descriptors : schema[d].is_required # 0 /\ args[d].present = 0}
    IN  IF missing = {} THEN 0
        ELSE CHOOSE d \in missing : \A e \in missing : d <= e

\* A main that goes on to setup without the pass over the required descriptors.
MainSwitchNoCheck ==
    /\ pc = "read_done"
    /\ automatic
    /\ IF read_result = AC_HELP
       THEN /\ exit_code' = 0
            /\ pc' = "exiting"
            /\ UNCHANGED calls
       ELSE IF read_result = AC_ERROR
       THEN /\ exit_code' = ARGUMENTS_PARAMETER_INVALID
            /\ pc' = "exiting"
            /\ UNCHANGED calls
       ELSE /\ pc' = "setup"
            /\ UNCHANGED <<exit_code, calls>>
    /\ UNCHANGED wvars
    /\ UNCHANGED <<schema, argv, automatic, arguments, nextarg, read_result, set_result,
                   atexit_list, blocks, examined>>

\* main after arguments_read: the switch on its result, then the pass that
\* detects missing arguments.
MainSwitch ==
    /\ pc = "read_done"
    /\ automatic
    /\ IF read_result = AC_HELP
       THEN /\ exit_code' = 0
            /\ pc' = "exiting"
            /\ UNCHANGED calls
       ELSE IF read_result = AC_ERROR
       THEN /\ exit_code' = ARGUMENTS_PARAMETER_INVALID
            /\ pc' = "exiting"
            /\ UNCHANGED calls
       ELSE /\ calls' = [calls EXCEPT !.required_check = @ + 1]
            /\ IF FirstMissing(arguments) # 0
               THEN /\ exit_code' = ARGUMENTS_PARAMETER_MISSING
                    /\ pc' = "exiting"
               ELSE /\ pc' = "setup"
                    /\ UNCHANGED exit_code
    /\ UNCHANGED wvars
    /\ UNCHANGED <<schema, argv, automatic, arguments, nextarg, read_result, set_result,
                   atexit_list, blocks, examined>>

\* main calls setup; a result other than 0 is returned at once, otherwise
\* teardown is registered with atexit.
Setup ==
    /\ pc = "setup"
    /\ \E result \in SetupResults :
          /\ calls' = [calls EXCEPT !.setup = @ + 1]
          /\ IF result # 0
             THEN /\ exit_code' = result
                  /\ pc' = "exiting"
                  /\ UNCHANGED atexit_list
             ELSE /\ atexit_list' = Append(atexit_list, "teardown")
                  /\ pc' = "set"
                  /\ UNCHANGED exit_code
    /\ UNCHANGED wvars
    /\ UNCHANGED <<schema, argv, automatic, arguments, nextarg, read_result, set_result,
                   blocks, examined>>

\* The call of arguments_set: by main at "set", by the caller in manual mode once
\* arguments_read has returned AC_OK.  It registers arguments_release with atexit.
ArgumentsSet ==
    /\ IF automatic THEN pc = "set" ELSE pc = "read_done" /\ read_result = AC_OK
    /\ LET st == arguments_set(arguments, blocks)
       IN  /\ arguments' = st.arguments
           /\ blocks' = st.blocks
           /\ set_result' = IF st.is_valid # 0 THEN AC_OK ELSE AC_ERROR
           /\ atexit_list' = Append(atexit_list, "arguments_release")
           /\ calls' = [calls EXCEPT !.arguments_set = @ + 1]
           /\ IF ~automatic
              THEN /\ pc' = "release"
                   /\ UNCHANGED exit_code
              ELSE IF st.is_valid # 0
              THEN /\ pc' = "run"
                   /\ UNCHANGED exit_code
              ELSE /\ exit_code' = ARGUMENTS_PARAMETER_INVALID
                   /\ pc' = "exiting"
    /\ UNCHANGED wvars
    /\ UNCHANGED <<schema, argv, automatic, nextarg, read_result, examined>>

\* main returns what run returns.
Run ==
    /\ pc = "run"
    /\ \E result \in RunResults :
          /\ exit_code' = result
          /\ calls' = [calls EXCEPT !.run = @ + 1]
    /\ pc' = "exiting"
    /\ UNCHANGED wvars
    /\ UNCHANGED <<schema, argv, automatic, arguments, nextarg, read_result, set_result,
                   atexit_list, blocks, examined>>

\* ------------------------------------------------------- the manual-mode caller

\* arguments_read stopped at a token no descriptor matches: the caller takes it
\* as positional and calls arguments_read again from the token after it.
CallerReadAgain ==
    /\ pc = "read_done"
    /\ ~automatic
    /\ read_result = AC_OK
    /\ nextarg < argc
    /\ nextarg' = nextarg + 1
    /\ pc' = "read"
    /\ UNCHANGED wvars
    /\ UNCHANGED <<schema, argv, automatic, arguments, read_result, set_result,
                   atexit_list, exit_code, blocks, calls, examined>>

\* arguments_read returned AC_HELP or AC_ERROR: the caller exits.
CallerAbort ==
    /\ pc = "read_done"
    /\ ~automatic
    /\ read_result # AC_OK
    /\ exit_code' = IF read_result = AC_HELP THEN 0 ELSE 1
    /\ pc' = "exiting"
    /\ UNCHANGED wvars
    /\ UNCHANGED <<schema, argv, automatic, arguments, nextarg, read_result, set_result,
                   atexit_list, blocks, calls, examined>>

\* arguments_set has been called: the caller calls arguments_release, as the
\* comment of arguments_release demands, and exits.
CallerRelease ==
    /\ pc = "release"
    /\ LET st == arguments_release(arguments, blocks)
       IN  /\ arguments' = st.arguments
           /\ blocks' = st.blocks
    /\ exit_code' = IF set_result = AC_OK THEN 0 ELSE 1
    /\ pc' = "exiting"
    /\ UNCHANGED wvars
    /\ UNCHANGED <<schema, argv, automatic, nextarg, read_result, set_result,
                   atexit_list, calls, examined>>

\* ------------------------------------------------------------------------ exit

\* The process exits: the functions registered with atexit run, the last
\* registered first; then the process is gone.
AtExit ==
    /\ pc = "exiting"
    /\ IF atexit_list = <<>>
       THEN /\ pc' = "done"
            /\ UNCHANGED <<arguments, blocks, calls, atexit_list>>
       ELSE LET f == atexit_list[Len(atexit_list)]
                st == arguments_release(arguments, blocks)
            IN  /\ atexit_list' = SubSeq(atexit_list, 1, Len(atexit_list) - 1)
                /\ IF f = "teardown"
                   THEN /\ calls' = [calls EXCEPT !.teardown = @ + 1]
                        /\ UNCHANGED <<arguments, blocks>>
                   ELSE /\ arguments' = st.arguments
                        /\ blocks' = st.blocks
                        /\ UNCHANGED calls
                /\ UNCHANGED pc
    /\ UNCHANGED wvars
    /\ UNCHANGED <<schema, argv, automatic, nextarg, read_result, set_result, exit_code,
                   examined>>

Next ==
    \/ Initialize
    \/ ReadStep
    \/ MainSwitch
    \/ Setup
    \/ ArgumentsSet
    \/ Run
    \/ CallerReadAgain
    \/ CallerAbort
    \/ CallerRelease
    \/ AtExit

Spec == Init /\ [][Next]_vars

\* ---------------------------------------------------------- arguments-help.h

\* An unsigned int is kept as the int of the same 32 bits: 2^32 - 1 is -1, and
\* sums and differences of the small values met here wrap as the C ones do.
\* a < b of two unsigned ints: a negative int is a value of 2^31 or more.
ULess(a, b) ==
    IF (a < 0) = (b < 0) THEN a < b ELSE b < 0

\* arguments_terminal_width: atoi(COLUMNS), 80 without COLUMNS, and
\* (unsigned int)-1 for 0; the int is returned as unsigned int.
arguments_terminal_width(env) ==
    LET result == IF env = <<>> THEN 80 ELSE env[1]
    IN  IF result = 0 THEN -1 ELSE result

\* argument_header_width: the widest 2 + strlen(name) [+ 2 + strlen(short)].
argument_header_width(s) ==
    LET current(d) == 2 + Len(s[d].name)
                      + (IF s[d].short # ARGUMENT_NO_SHORT_OPTION
                         THEN 2 + Len(s[d].short) ELSE 0)
        widths == {current(d) : d \in 1..Len(s)} \cup {0}
    IN  CHOOSE w \in widths : \A v \in widths : v <= w

\* The bytes of a help string: "a" is a letter, "L" the lead byte and "C" the
\* continuation byte of a two-byte UTF-8 character.
TextBytes == {"a", " ", "\n", "L", "C"}

isspace(ch) == ch = " " \/ ch = "\n"

\* mbrlen(s + i, end - i, &mbs) with mbs in its initial state: the bytes of the
\* character at offset i, -1 for an invalid and -2 for an incomplete sequence.
\* In the C locale every byte stands alone (or is invalid: both advance i by 1).
mbrlen(s, i, end, loc) ==
    LET b == s[i + 1]
    IN  IF b \in {"a", " ", "\n"} THEN 1
        ELSE IF loc = "C" THEN -1
        ELSE IF b = "C" THEN -1
        ELSE IF i + 1 >= end THEN -2
        ELSE IF s[i + 2] = "C" THEN 2
        ELSE -1

\* The for loop of arguments_get_line on the string s of end bytes: st holds i, l,
\* *length, result, was_space and seen_space.
RECURSIVE arguments_get_line_loop(_, _, _, _, _)
arguments_get_line_loop(s, end, max, loc, st) ==
    IF ~(st.i < end /\ ULess(st.l, max)) THEN st
    ELSE IF s[st.i + 1] = "\n" THEN [st EXCEPT !.length = st.l, !.result = st.i + 1]
    ELSE LET st1 == IF ~st.seen_space
                    THEN [st EXCEPT !.length = st.l, !.result = st.i]
                    ELSE st
             l == st.l + 1
             is_space == isspace(s[st.i + 1])
             st2 == IF is_space /\ ~st.was_space
                    THEN [st1 EXCEPT !.length = l - 1]
                    ELSE IF ~is_space /\ st.was_space
                    THEN [st1 EXCEPT !.result = st.i]
                    ELSE st1
             di == mbrlen(s, st.i, end, loc)
             i == IF di = 0 THEN st.i
                  ELSE IF di = -1 \/ di = -2 THEN st.i + 1
                  ELSE st.i + di
             st3 == [st2 EXCEPT !.i = i, !.l = l, !.was_space = is_space,
                                !.seen_space = st.seen_space \/ is_space]
         IN  arguments_get_line_loop(s, end, max, loc,
                IF i = end THEN [st3 EXCEPT !.length = l, !.result = i] ELSE st3)

\* The while loop that skips the spaces at result.
RECURSIVE SkipSpaces(_, _, _)
SkipSpaces(s, end, result) ==
    IF result < end /\ s[result + 1] = " " THEN SkipSpaces(s, end, result + 1) ELSE result

\* arguments_get_line(s, &length, max_length): *length and the value returned.
arguments_get_line(s, max, loc) ==
    LET end == Len(s)
        st == arguments_get_line_loop(s, end, max, loc,
                 [i |-> 0, l |-> 0, length |-> 0, result |-> 0,
                  was_space |-> FALSE, seen_space |-> FALSE])
        result == IF st.result < st.length THEN st.length ELSE st.result
    IN  [length |-> st.length, n |-> SkipSpaces(s, end, result)]

\* header_width as arguments_print_help_string uses it: 0 without a header.
header_width == IF header THEN argument_header_width(schema) ELSE 0

terminal_width == arguments_terminal_width(columns)

\* The max_length arguments_print_help_string passes to arguments_get_line.
max_length == terminal_width - header_width + (IF header THEN 0 ELSE 1)

\* The help string from offset at on.
Rest(s, at) == SubSeq(s, at + 1, Len(s))

Texts == Vectors(TextBytes, MaxText)

WrapSchemas ==
    {<<Descriptor(n, ARGUMENT_NO_SHORT_OPTION, 0, 0, 1, 1)>> :
        n \in {<<"a">>, <<"a", "_", "b">>}}

\* arguments_read has reached "--help" and arguments_print_help calls
\* arguments_print_help_string for a help string.
InitWrap ==
    /\ schema \in WrapSchemas
    /\ argv = <<ProgramName, HelpLong>>
    /\ automatic = TRUE
    /\ pc = "print_help_string"
    /\ arguments = ZeroedArguments
    /\ nextarg = 1
    /\ read_result = NoResult
    /\ set_result = NoResult
    /\ atexit_list = <<>>
    /\ exit_code = NoResult
    /\ blocks = NoBlocks
    /\ calls = NoCalls
    /\ examined = <<1>>
    /\ help \in Texts
    /\ locale \in {"C", "UTF-8"}
    /\ header \in BOOLEAN
    /\ columns \in {<<>>} \cup {<<n>> : n \in 0..MaxColumns}
    /\ c = 0
    /\ printed = <<>>

\* One pass of the while (*c) loop of arguments_print_help_string: a line of
\* length bytes is printed from c, with a newline if it is shorter than the
\* width, and c moves on by n.
PrintLine ==
    /\ pc = "print_help_string"
    /\ c < Len(help)
    /\ Len(printed) < MaxLines
    /\ LET line == arguments_get_line(Rest(help, c), max_length, locale)
       IN  /\ printed' = Append(printed,
                [at |-> c, length |-> line.length, n |-> line.n,
                 newline |-> ULess(line.length,
                     terminal_width - header_width - (IF header THEN 1 ELSE 0))])
           /\ c' = c + line.n
    /\ UNCHANGED <<help, locale, header, columns>>
    /\ UNCHANGED <<schema, argv, automatic, pc, arguments, nextarg, read_result, set_result,
                   atexit_list, exit_code, blocks, calls, examined>>

\* *c is the terminating NUL: arguments_print_help_string returns.
PrintReturn ==
    /\ pc = "print_help_string"
    /\ c = Len(help)
    /\ pc' = "printed"
    /\ UNCHANGED wvars
    /\ UNCHANGED <<schema, argv, automatic, arguments, nextarg, read_result, set_result,
                   atexit_list, exit_code, blocks, calls, examined>>

NextWrap ==
    \/ PrintLine
    \/ PrintReturn

SpecWrap == InitWrap /\ [][NextWrap]_vars

\* The bytes printf("%-.*s", length, c) writes for a printed line.
Written(line) ==
    SubSeq(help, line.at + 1,
           IF line.at + line.length < Len(help) THEN line.at + line.length ELSE Len(help))

\* ---------------------------------------------------------------------- claims

Required(d) == schema[d].is_required # 0

Absent(d) == arguments[d].present = 0

\* C1: every descriptor whose record reached initialized = 1 has had its release
\* block executed exactly once when the process has ended.
C1_ReleasedExactlyOnce ==
    pc = "done" =>
        \A d \in Descriptors : arguments[d].initialized # 0 => blocks[d].release = 1

C4_LongFormSelects ==
    [][\A d \in Descriptors :
          (/\ WellFormed(schema)
           /\ pc = "read"
           /\ nextarg < argc
           /\ Arg(nextarg) = LongForm(schema[d].name))
          => /\ arguments'[d].present = 1
             /\ \A e \in Descriptors \ {d} : arguments'[e].present = arguments[e].present
      ]_vars

\* C4 amended: the same, for a token that is not "--help" and is not the short
\* alias of a descriptor declared before d.
C4_LongFormSelectsUnshadowed ==
    [][\A d \in Descriptors :
          (/\ WellFormed(schema)
           /\ pc = "read"
           /\ nextarg < argc
           /\ Arg(nextarg) = LongForm(schema[d].name)
           /\ Arg(nextarg) # HelpLong
           /\ \A e \in 1..(d - 1) : schema[e].short # Arg(nextarg))
          => /\ arguments'[d].present = 1
             /\ \A e \in Descriptors \ {d} : arguments'[e].present = arguments[e].present
      ]_vars

\* C4 witness: the first token is the long form of the second descriptor, which
\* is present while the first is not.
C4_Witness ==
    /\ Len(schema) = 2
    /\ examined = <<1>>
    /\ Arg(1) = LongForm(schema[2].name)
    /\ arguments[2].present = 1
    /\ arguments[1].present = 0

\* C5: arguments_set returns AC_ERROR whenever a required descriptor is not
\* present.
C5_SetReportsMissing ==
    (calls.arguments_set > 0 /\ \E d \in Descriptors : Required(d) /\ Absent(d))
        => set_result = AC_ERROR

\* A run of main in which a present descriptor's reader rejects its value and a
\* required descriptor is absent.
C6_Case ==
    /\ automatic
    /\ read_result = AC_OK
    /\ \E d \in Descriptors : ~Absent(d) /\ schema[d].read = 0
    /\ \E d \in Descriptors : Required(d) /\ Absent(d)

Materializes(e) ==
    IF Absent(e) THEN schema[e].set_default # 0 ELSE schema[e].read # 0

\* An absent, not required descriptor whose set_default produces a value.
C7_Case(d) ==
    /\ calls.arguments_set > 0
    /\ Absent(d)
    /\ ~Required(d)
    /\ schema[d].set_default # 0

C8_TeardownIffSetup ==
    (automatic /\ pc = "done") => (calls.teardown = 1 <=> calls.setup = 1)

\* The help string is one word of single-byte letters.
SingleWord == help # <<>> /\ \A k \in 1..Len(help) : help[k] = "a"

\* The least number of fragments of at most width bytes that hold len bytes.
CeilDiv(len, width) == (len + width - 1) \div width

\* C9: a single word longer than max_length >= 1 is split into
\* ceil(L / max_length) fragments, each of exactly max_length columns except the
\* last, and each fragment starts where the one before it ended.
C9_HardSplit ==
    (SingleWord /\ max_length >= 1 /\ Len(help) > max_length)
        => /\ \A k \in 1..Len(printed) :
                /\ printed[k].n = printed[k].length
                /\ printed[k].at + printed[k].length < Len(help)
                      => printed[k].length = max_length
           /\ pc = "printed" => Len(printed) = CeilDiv(Len(help), max_length)

\* The bytes written by the first k printed lines, one after the other.
RECURSIVE WrittenUpTo(_)
WrittenUpTo(k) == IF k = 0 THEN <<>> ELSE WrittenUpTo(k - 1) \o Written(printed[k])

NonSpace(s) == SelectSeq(s, LAMBDA b : ~isspace(b))

\* C10: when the help string has been rendered, the lines written hold its
\* non-space bytes, each once and in order.
C10_RoundTrip ==
    pc = "printed" => NonSpace(WrittenUpTo(Len(printed))) = NonSpace(help)

\* The offsets, counted from 1 in the rest of the help string, of its newlines.
Newlines(at) == {k \in 1..(Len(help) - at) : help[at + k] = "\n"}

\* The printed line ends at an explicit newline or at the end of the help string:
\* the loop moved on past the first newline of the rest, or past all of a rest
\* that has none.
EndsAtNewlineOrEnd(line) ==
    IF Newlines(line.at) = {}
    THEN line.at + line.n = Len(help)
    ELSE \E k \in Newlines(line.at) :
            /\ \A j \in Newlines(line.at) : k <= j
            /\ line.n >= k

\* C11: without COLUMNS the width is 80; with a COLUMNS that parses to zero the
\* width is unbounded: every line of every help string, after a header or
\* without one, ends at an explicit newline or at the end of the string, and the
\* render loop moves on with every pass.
C11_ZeroWidthIsUnbounded ==
    /\ columns = <<>> => terminal_width = 80
    /\ columns = <<0>> =>
          \A k \in 1..Len(printed) :
              /\ EndsAtNewlineOrEnd(printed[k])
              /\ printed[k].n >= 1

\* C12: every call of arguments_get_line made by the render loop on a non-empty
\* rest of the help string returns a next offset of at least 1, whatever the
\* header width and the terminal width are.
C12_EveryPassAdvances ==
    \A k \in 1..Len(printed) :
        (help # <<>> /\ printed[k].at < Len(help)) => printed[k].n >= 1

====
